---- MODULE Spec2Model ----
(***************************************************************************)
(* Model of the WebSocket publish/subscribe broadcaster of qmsk/go-web     *)
(* (package web, the Events type).  The control loop Events.run owns the   *)
(* clientSet; producers push events on the unbuffered EventPush channel;   *)
(* subscribers call listen() and stop() over the unbuffered registerChan   *)
(* and unregisterChan, and read their own buffered channel.                *)
(*                                                                         *)
(* A subscriber channel is identified with the subscriber that made it in  *)
(* listen(): every subscriber calls listen() at most once.                 *)
(*                                                                         *)
(* One case of the select in Events.run is one action.  clientSet.publish  *)
(* is one action: every send in it is non-blocking, touches only the       *)
(* loop-owned set and one client channel, and so commutes with every step  *)
(* of the other goroutines on the other channels.  The order in which the  *)
(* Go map iteration visits the clients is a nondeterministic input.        *)
(***************************************************************************)
EXTENDS Integers, Sequences, FiniteSets, TLC

\* ---------------------------------------------------------------- bounds

\* Capacity of a subscriber channel in the model; EVENTS_BUFFER is 100 in
\* the source (make(chan Event, EVENTS_BUFFER)).
QueueCap == 2

\* Number of events the producers of a run write in all.
MaxEvents == 4

\* Longest URL path of a REST request, in names; the lookup makes one Index
\* call for each name.
MaxDepth == 2

Subscribers == {"s1", "s2"}
Producers == {1, 2}

\* --------------------------------------------------------------- values

NoEvent == <<0, 0>>

\* What an adapter forwards to its sink: the snapshot, then events.
StateItem(st) == [kind |-> "state", ev |-> NoEvent, st |-> st]
EventItem(e) == [kind |-> "event", ev |-> e, st |-> {}]

\* No request served yet.
NoRequest == [method |-> "none", chain |-> <<>>, failAt |-> 0, outcome |-> "nil", ret |-> "plain"]
RestIdle == [pc |-> "idle", req |-> NoRequest, calls |-> <<>>, result |-> "none"]

RECURSIVE Perms(_)
Perms(S) ==
  IF S = {} THEN {<<>>}
  ELSE UNION {{<<x>> \o p : p \in Perms(S \ {x})} : x \in S}

VARIABLES
  clients,        \* run: the clientSet, as the set of registered channels
  queue,          \* per subscriber channel: the buffered events
  closed,         \* per subscriber channel: close() was called on it
  pcRun,          \* run: "select", "closeRegister", "closeClients", "done", "panic"
  registerChan,   \* "open" or "closed"
  unregisterChan, \* "open" or "closed"
  eventPush,      \* config.EventPush: "open" or "closed"
  pcSub,          \* per subscriber: position in ServeWebsocket
  pcProd,         \* per producer: "idle", "push" (blocked in the send) or "done"
  stateFunc,      \* config.StateFunc != nil (fixed by Init)
  quota,          \* per producer: events it will write (fixed by Init)
  nSent,          \* per producer: events pushed so far
  provider,       \* the value StateFunc returns: the events applied to it
  snapshot,       \* per subscriber: what state() returned to it
  log,            \* history: the events run has received, in order
  regAt,          \* history: Len(log) when run accepted the register, or -1
  endAt,          \* history: Len(log) when run removed the channel, or -1
  removedBy,      \* history: "none", "unregister", "drop", "shutdown"
  recv,           \* history: the events the subscriber read from its channel
  sink,           \* history: the items the adapter forwarded to its websocket
  nStop,          \* history: stop() calls made by the subscriber
  lateCall,       \* history: its last listen() or stop() call was made after
                  \* run had exited
  rest            \* the REST dispatcher: the request API.handle served, the
                  \* ApplyREST calls it made and how it ended

loopVars == <<clients, queue, closed, pcRun, registerChan, unregisterChan>>
prodVars == <<pcProd, stateFunc, quota, nSent, provider>>
subVars == <<pcSub, snapshot, recv, sink, nStop, lateCall>>
histVars == <<log, regAt, endAt, removedBy>>
vars == <<loopVars, eventPush, prodVars, subVars, histVars, rest>>

\* ------------------------------------------------------------ clientSet
\* The clientSet methods act on the loop's view of the world: the set, the
\* client channels, and whether a channel operation has panicked.

LoopState == [clients |-> clients, queue |-> queue, closed |-> closed, panic |-> FALSE]

\* Mutant: register leaves the set as it is.
registerNoop(st, q) == st

\* clientSet[clientChan] = true
register(st, q) ==
  [st EXCEPT !.clients = @ \cup {q}]

\* Mutant: unregister closes the channel as drop does.
unregisterClosing(st, q) ==
  IF st.closed[q] THEN [st EXCEPT !.panic = TRUE]
  ELSE [st EXCEPT !.closed[q] = TRUE, !.clients = @ \ {q}]

\* Mutant: unregister of a channel that is not registered fails.
unregisterStrict(st, q) ==
  IF q \notin st.clients THEN [st EXCEPT !.panic = TRUE]
  ELSE [st EXCEPT !.clients = @ \ {q}]

\* delete(clientSet, clientChan): a no-op for a channel that is not in the map
unregister(st, q) ==
  [st EXCEPT !.clients = @ \ {q}]

\* Mutant: drop throws away what the channel holds.
dropDiscarding(st, q) ==
  IF st.panic THEN st
  ELSE IF st.closed[q] THEN [st EXCEPT !.panic = TRUE]
  ELSE [st EXCEPT !.closed[q] = TRUE, !.clients = @ \ {q}, !.queue[q] = <<>>]

\* Mutant: drop closes the channel and leaves it in the set.
dropNoDelete(st, q) ==
  IF st.panic THEN st
  ELSE IF st.closed[q] THEN [st EXCEPT !.panic = TRUE]
  ELSE [st EXCEPT !.closed[q] = TRUE]

\* close(clientChan), which panics on a channel that is already closed, then
\* delete(clientSet, clientChan)
drop(st, q) ==
  IF st.panic THEN st
  ELSE IF st.closed[q] THEN [st EXCEPT !.panic = TRUE]
  ELSE [st EXCEPT !.closed[q] = TRUE, !.clients = @ \ {q}]

\* Mutant: a full channel loses its oldest event instead of being dropped.
sendOverwrite(st, q, e) ==
  IF st.panic THEN st
  ELSE IF st.closed[q] THEN [st EXCEPT !.panic = TRUE]
  ELSE IF Len(st.queue[q]) < QueueCap
    THEN [st EXCEPT !.queue[q] = Append(@, e)]
    ELSE [st EXCEPT !.queue[q] = Append(Tail(@), e)]

\* Mutant: the event is discarded for a full channel, which stays registered.
sendDiscard(st, q, e) ==
  IF st.panic THEN st
  ELSE IF st.closed[q] THEN [st EXCEPT !.panic = TRUE]
  ELSE IF Len(st.queue[q]) < QueueCap
    THEN [st EXCEPT !.queue[q] = Append(@, e)]
    ELSE st

\* Mutant: the event goes to the head of the channel.
sendFront(st, q, e) ==
  IF st.panic THEN st
  ELSE IF st.closed[q] THEN [st EXCEPT !.panic = TRUE]
  ELSE IF Len(st.queue[q]) < QueueCap
    THEN [st EXCEPT !.queue[q] = <<e>> \o @]
    ELSE drop(st, q)

\* Mutant: the channel takes every event, as a channel without a capacity.
sendUnbounded(st, q, e) ==
  IF st.panic THEN st
  ELSE IF st.closed[q] THEN [st EXCEPT !.panic = TRUE]
  ELSE [st EXCEPT !.queue[q] = Append(@, e)]

\* select { case clientChan <- event: default: drop }; a send on a closed
\* channel panics
send(st, q, e) ==
  IF st.panic THEN st
  ELSE IF st.closed[q] THEN [st EXCEPT !.panic = TRUE]
  ELSE IF Len(st.queue[q]) < QueueCap
    THEN [st EXCEPT !.queue[q] = Append(@, e)]
    ELSE drop(st, q)

\* Mutant: the iteration ends at the first client that is dropped.
RECURSIVE publishBreak(_, _, _)
publishBreak(st, order, e) ==
  IF order = <<>> THEN st
  ELSE LET q == Head(order)
           st1 == IF q \in st.clients /\ ~st.panic THEN send(st, q, e) ELSE st
       IN IF st1.clients # st.clients THEN st1 ELSE publishBreak(st1, Tail(order), e)

\* for clientChan := range clientSet, visiting the clients in `order`; an
\* entry deleted before the iteration reaches it is not visited
RECURSIVE publish(_, _, _)
publish(st, order, e) ==
  IF order = <<>> THEN st
  ELSE LET q == Head(order)
           st1 == IF q \in st.clients /\ ~st.panic THEN send(st, q, e) ELSE st
       IN publish(st1, Tail(order), e)

\* Mutant: close empties the set without closing the channels.
RECURSIVE closeNoClose(_, _)
closeNoClose(st, order) ==
  IF order = <<>> THEN st
  ELSE closeNoClose(unregister(st, Head(order)), Tail(order))

\* for clientChan := range clientSet { clientSet.drop(clientChan) }
RECURSIVE close(_, _)
close(st, order) ==
  IF order = <<>> THEN st
  ELSE LET q == Head(order)
           st1 == IF q \in st.clients /\ ~st.panic THEN drop(st, q) ELSE st
       IN close(st1, Tail(order))

\* ----------------------------------------------------------------- Init

Init ==
  /\ clients = {}
  /\ queue = [s \in Subscribers |-> <<>>]
  /\ closed = [s \in Subscribers |-> FALSE]
  /\ pcRun = "select"
  /\ registerChan = "open"
  /\ unregisterChan = "open"
  /\ eventPush = "open"
  /\ pcSub = [s \in Subscribers |-> "idle"]
  /\ quota = [p \in Producers |-> IF p = 1 THEN MaxEvents ELSE 0]
  /\ stateFunc = FALSE
  /\ pcProd = [p \in Producers |-> IF quota[p] > 0 THEN "idle" ELSE "done"]
  /\ nSent = [p \in Producers |-> 0]
  /\ provider = {}
  /\ snapshot = [s \in Subscribers |-> {}]
  /\ log = <<>>
  /\ regAt = [s \in Subscribers |-> -1]
  /\ endAt = [s \in Subscribers |-> -1]
  /\ removedBy = [s \in Subscribers |-> "none"]
  /\ recv = [s \in Subscribers |-> <<>>]
  /\ sink = [s \in Subscribers |-> <<>>]
  /\ nStop = [s \in Subscribers |-> 0]
  /\ lateCall = [s \in Subscribers |-> FALSE]
  /\ rest = RestIdle

\* ------------------------------------------------------------ Events.run

\* The loop's next position and the channels after a clientSet operation.
\* `why` is recorded for the channels the operation removed.
Commit(st, next, why) ==
  /\ clients' = st.clients
  /\ queue' = st.queue
  /\ closed' = st.closed
  /\ pcRun' = IF st.panic THEN "panic" ELSE next
  /\ endAt' = [s \in Subscribers |->
                 IF s \in clients /\ s \notin st.clients THEN Len(log') ELSE endAt[s]]
  /\ removedBy' = [s \in Subscribers |->
                     IF s \in clients /\ s \notin st.clients THEN why ELSE removedBy[s]]

\* Mutant: the state is read in the step in which run accepts the register.
RunRegisterAtomic(s) ==
  /\ pcRun = "select"
  /\ pcSub[s] = "listen"
  /\ registerChan = "open"
  /\ log' = log
  /\ Commit(register(LoopState, s), "select", "none")
  /\ regAt' = [regAt EXCEPT ![s] = Len(log)]
  /\ pcSub' = [pcSub EXCEPT ![s] = "state"]
  /\ snapshot' = [snapshot EXCEPT ![s] = IF stateFunc THEN provider ELSE {}]
  /\ UNCHANGED <<rest, registerChan, unregisterChan, eventPush, prodVars,
                 recv, sink, nStop, lateCall>>

\* case clientChan := <-events.registerChan, meeting the send in listen()
RunRegister(s) ==
  /\ pcRun = "select"
  /\ pcSub[s] = "listen"
  /\ registerChan = "open"
  /\ log' = log
  /\ Commit(register(LoopState, s), "select", "none")
  /\ regAt' = [regAt EXCEPT ![s] = Len(log)]
  /\ pcSub' = [pcSub EXCEPT ![s] = "state"]
  /\ UNCHANGED <<rest, registerChan, unregisterChan, eventPush, prodVars,
                 snapshot, recv, sink, nStop, lateCall>>

\* case clientChan := <-events.unregisterChan, meeting the send in stop()
RunUnregister(s) ==
  /\ pcRun = "select"
  /\ pcSub[s] = "stop"
  /\ unregisterChan = "open"
  /\ log' = log
  /\ Commit(unregister(LoopState, s), "select", "unregister")
  /\ pcSub' = [pcSub EXCEPT ![s] = "done"]
  /\ UNCHANGED <<rest, registerChan, unregisterChan, eventPush, prodVars,
                 snapshot, recv, sink, nStop, lateCall, regAt>>

\* Mutant: run takes the next event only when every client has room for it,
\* as it would with a blocking send to the clients.
RecvEventPushIfRoom(p) ==
  /\ pcRun = "select"
  /\ pcProd[p] = "push"
  /\ eventPush = "open"
  /\ \A q \in clients : Len(queue[q]) < QueueCap

\* The case <-config.EventPush of the select is ready: run is at the select
\* and producer p is blocked in its send.
RecvEventPush(p) ==
  /\ pcRun = "select"
  /\ pcProd[p] = "push"
  /\ eventPush = "open"

\* case event, ok := <-config.EventPush with ok: clients.publish(event)
RunEvent(p) ==
  /\ RecvEventPush(p)
  /\ LET e == <<p, nSent[p] + 1>> IN
       /\ log' = Append(log, e)
       /\ \E order \in Perms(clients) :
            Commit(publish(LoopState, order, e), "select", "drop")
  /\ nSent' = [nSent EXCEPT ![p] = @ + 1]
  /\ pcProd' = [pcProd EXCEPT ![p] = IF nSent[p] + 1 < quota[p] THEN "idle" ELSE "done"]
  /\ UNCHANGED <<rest, registerChan, unregisterChan, eventPush, stateFunc, quota, provider,
                 subVars, regAt>>

\* case event, ok := <-config.EventPush with !ok: return, which runs the
\* deferred calls last-in first-out, so close(events.unregisterChan) first
RunEventClosed ==
  /\ pcRun = "select"
  /\ eventPush = "closed"
  /\ unregisterChan' = "closed"
  /\ pcRun' = "closeRegister"
  /\ UNCHANGED <<rest, clients, queue, closed, registerChan,
                 eventPush, prodVars, subVars, histVars>>

\* Mutant: run leaves registerChan open when it returns.
RunCloseRegisterSkip ==
  /\ pcRun = "closeRegister"
  /\ pcRun' = "closeClients"
  /\ UNCHANGED <<rest, clients, queue, closed, registerChan, unregisterChan,
                 eventPush, prodVars, subVars, histVars>>

\* defer close(events.registerChan)
RunCloseRegister ==
  /\ pcRun = "closeRegister"
  /\ registerChan' = "closed"
  /\ pcRun' = "closeClients"
  /\ UNCHANGED <<rest, clients, queue, closed, unregisterChan,
                 eventPush, prodVars, subVars, histVars>>

\* defer clients.close(): the first defer runs last
RunCloseClients ==
  /\ pcRun = "closeClients"
  /\ log' = log
  /\ \E order \in Perms(clients) :
       Commit(close(LoopState, order), "done", "shutdown")
  /\ UNCHANGED <<rest, registerChan, unregisterChan, eventPush, prodVars, subVars, regAt>>

\* ------------------------------------------------------------ producers

\* Mutant: the producer pushes the event without applying it to the state.
ProducerWriteLate(p) ==
  /\ pcProd[p] = "idle"
  /\ eventPush = "open"
  /\ pcProd' = [pcProd EXCEPT ![p] = "push"]
  /\ UNCHANGED <<rest, loopVars, eventPush, stateFunc, quota, nSent, provider, subVars, histVars>>

\* A producer (the writer of the tests) makes its next event and starts the
\* send on EventPush, which blocks until run receives it.  The producer of
\* an application with a StateFunc has applied the event to the state that
\* StateFunc reports before it pushes it.
ProducerWrite(p) ==
  /\ pcProd[p] = "idle"
  /\ eventPush = "open"
  /\ provider' = IF stateFunc THEN provider \cup {<<p, nSent[p] + 1>>} ELSE provider
  /\ pcProd' = [pcProd EXCEPT ![p] = "push"]
  /\ UNCHANGED <<rest, loopVars, eventPush, stateFunc, quota, nSent, subVars, histVars>>

\* The owner of EventPush closes it; no producer is sending on it.
CloseSource ==
  /\ eventPush = "open"
  /\ \A p \in Producers : pcProd[p] # "push"
  /\ eventPush' = "closed"
  /\ UNCHANGED <<rest, loopVars, prodVars, subVars, histVars>>

\* ---------------------------------------------------------- subscribers

\* Mutant: listen() puts its channel into the set itself.
ListenCallDirect(s) ==
  /\ pcSub[s] = "idle"
  /\ pcSub' = [pcSub EXCEPT ![s] = "listen"]
  /\ lateCall' = [lateCall EXCEPT ![s] = (pcRun = "done")]
  /\ clients' = clients \cup {s}
  /\ UNCHANGED <<rest, queue, closed, pcRun, registerChan, unregisterChan,
                 eventPush, prodVars, snapshot, recv, sink, nStop, histVars>>

\* ServeWebsocket calls listen(): make the channel, start the register send
ListenCall(s) ==
  /\ pcSub[s] = "idle"
  /\ pcSub' = [pcSub EXCEPT ![s] = "listen"]
  /\ lateCall' = [lateCall EXCEPT ![s] = (pcRun = "done")]
  /\ UNCHANGED <<rest, loopVars, eventPush, prodVars, snapshot, recv, sink, nStop, histVars>>

\* events.registerChan <- eventChan on the closed channel panics
ListenPanic(s) ==
  /\ pcSub[s] = "listen"
  /\ registerChan = "closed"
  /\ pcSub' = [pcSub EXCEPT ![s] = "panic"]
  /\ UNCHANGED <<rest, loopVars, eventPush, prodVars, snapshot, recv, sink, nStop, lateCall, histVars>>

\* events.unregisterChan <- eventsClient on the closed channel panics
StopPanic(s) ==
  /\ pcSub[s] = "stop"
  /\ unregisterChan = "closed"
  /\ pcSub' = [pcSub EXCEPT ![s] = "panic"]
  /\ UNCHANGED <<rest, loopVars, eventPush, prodVars, snapshot, recv, sink, nStop, lateCall, histVars>>

\* Mutant: state() ignores the StateFunc.
stateNone == {}

\* events.state(): StateFunc(), or struct{}{} without one
state == IF stateFunc THEN provider ELSE {}

\* Mutant: serveWebsocket goes to the events without sending the state.
ServeStateSkip(s, ok) ==
  /\ pcSub[s] = "state"
  /\ snapshot' = [snapshot EXCEPT ![s] = state]
  /\ pcSub' = [pcSub EXCEPT ![s] = IF ok THEN "range" ELSE "stop"]
  /\ nStop' = [nStop EXCEPT ![s] = IF ok THEN @ ELSE @ + 1]
  /\ lateCall' = [lateCall EXCEPT ![s] = IF ok THEN @ ELSE (pcRun = "done")]
  /\ UNCHANGED <<rest, loopVars, eventPush, prodVars, recv, sink, histVars>>

\* listen() returns events.state(); serveWebsocket sends it first.  A failed
\* websocket send makes ServeWebsocket call stop().
ServeState(s, ok) ==
  /\ pcSub[s] = "state"
  /\ snapshot' = [snapshot EXCEPT ![s] = state]
  /\ IF ok
       THEN /\ sink' = [sink EXCEPT ![s] = Append(@, StateItem(state))]
            /\ pcSub' = [pcSub EXCEPT ![s] = "range"]
            /\ nStop' = nStop
            /\ lateCall' = lateCall
       ELSE /\ sink' = sink
            /\ pcSub' = [pcSub EXCEPT ![s] = "stop"]
            /\ nStop' = [nStop EXCEPT ![s] = @ + 1]
            /\ lateCall' = [lateCall EXCEPT ![s] = (pcRun = "done")]
  /\ UNCHANGED <<rest, loopVars, eventPush, prodVars, recv, histVars>>

\* for event := range eventsClient: one event read and sent to the websocket
ServeEvent(s, ok) ==
  /\ pcSub[s] = "range"
  /\ queue[s] # <<>>
  /\ queue' = [queue EXCEPT ![s] = Tail(@)]
  /\ recv' = [recv EXCEPT ![s] = Append(@, Head(queue[s]))]
  /\ IF ok
       THEN /\ sink' = [sink EXCEPT ![s] = Append(@, EventItem(Head(queue[s])))]
            /\ pcSub' = pcSub
            /\ nStop' = nStop
            /\ lateCall' = lateCall
       ELSE /\ sink' = sink
            /\ pcSub' = [pcSub EXCEPT ![s] = "stop"]
            /\ nStop' = [nStop EXCEPT ![s] = @ + 1]
            /\ lateCall' = [lateCall EXCEPT ![s] = (pcRun = "done")]
  /\ UNCHANGED <<rest, clients, closed, pcRun, registerChan, unregisterChan,
                 eventPush, prodVars, snapshot, histVars>>

\* Mutant: ServeWebsocket calls stop() also when the channel was closed.
ServeClosedStop(s) ==
  /\ pcSub[s] = "range"
  /\ queue[s] = <<>>
  /\ closed[s]
  /\ pcSub' = [pcSub EXCEPT ![s] = "stop"]
  /\ nStop' = [nStop EXCEPT ![s] = @ + 1]
  /\ UNCHANGED <<rest, loopVars, eventPush, prodVars, snapshot, recv, sink, lateCall, histVars>>

\* the range ends on the closed and drained channel: serveWebsocket returns nil
ServeClosed(s) ==
  /\ pcSub[s] = "range"
  /\ queue[s] = <<>>
  /\ closed[s]
  /\ pcSub' = [pcSub EXCEPT ![s] = "done"]
  /\ UNCHANGED <<rest, loopVars, eventPush, prodVars, snapshot, recv, sink, nStop, lateCall, histVars>>

\* ----------------------------------------------------------------- Next

Next ==
  \/ \E s \in Subscribers : RunRegister(s)
  \/ \E s \in Subscribers : RunUnregister(s)
  \/ \E p \in Producers : RunEvent(p)
  \/ RunEventClosed
  \/ RunCloseRegister
  \/ RunCloseClients
  \/ \E p \in Producers : ProducerWrite(p)
  \/ CloseSource
  \/ \E s \in Subscribers : ListenCall(s)
  \/ \E s \in Subscribers : ListenPanic(s)
  \/ \E s \in Subscribers : StopPanic(s)
  \/ \E s \in Subscribers, ok \in BOOLEAN : ServeState(s, ok)
  \/ \E s \in Subscribers, ok \in BOOLEAN : ServeEvent(s, ok)
  \/ \E s \in Subscribers : ServeClosed(s)

Spec == Init /\ [][Next]_vars

\* Fairness.  run is a goroutine of its own that the scheduler keeps running:
\* whenever a case of its select is ready, or a deferred call is left, it
\* takes a step.  Nothing is assumed of the producers and the subscribers.
RunNext ==
  \/ \E s \in Subscribers : RunRegister(s)
  \/ \E s \in Subscribers : RunUnregister(s)
  \/ \E p \in Producers : RunEvent(p)
  \/ RunEventClosed
  \/ RunCloseRegister
  \/ RunCloseClients

FairLoop == Init /\ [][Next]_vars /\ WF_vars(RunNext)

\* The subscriber goroutines are scheduled too: a subscriber that can read
\* its channel, see it closed, or panic in stop() does so.  The websocket
\* send of a value ends, with or without an error.
ServeNext(s) ==
  \/ \E ok \in BOOLEAN : ServeState(s, ok)
  \/ \E ok \in BOOLEAN : ServeEvent(s, ok)
  \/ ServeClosed(s)
  \/ StopPanic(s)

FairAll ==
  Init /\ [][Next]_vars /\ WF_vars(RunNext) /\ \A s \in Subscribers : WF_vars(ServeNext(s))

\* ---------------------------------------------------------------- claims

Last(seq) == seq[Len(seq)]

\* The events run processed while the channel of s was registered: after the
\* register was accepted and up to its removal.  The event that dropped a
\* full channel is the last of them.
Window(s) ==
  SubSeq(log, regAt[s] + 1, IF endAt[s] >= 0 THEN endAt[s] ELSE Len(log))

\* C1 as stated: a subscriber that was never dropped for a full channel and
\* has returned has read exactly the events run processed between accepting
\* its register and accepting its unregister (or shutdown).
C1_ReadsWholeWindow ==
  \A s \in Subscribers :
    (pcSub[s] = "done" /\ regAt[s] >= 0 /\ removedBy[s] \in {"unregister", "shutdown"}) =>
      recv[s] = Window(s)

\* C1 as amended: a subscriber that was never dropped for a full channel gets
\* through its channel exactly the events run processed between accepting
\* its register and its removal (unregister or shutdown), in that order: what
\* it has read followed by what is still buffered is that sequence, and a
\* subscriber that read until the channel was closed at shutdown has read all
\* of it.  A subscriber that called stop() has read a prefix of it.
C1_ExactSequence ==
  \A s \in Subscribers :
    (regAt[s] >= 0 /\ removedBy[s] # "drop") =>
      /\ recv[s] \o queue[s] = Window(s)
      /\ (removedBy[s] = "shutdown" /\ pcSub[s] = "done") => recv[s] = Window(s)

C1_Witness ==
  \E s \in Subscribers :
    /\ removedBy[s] = "shutdown"
    /\ pcSub[s] = "done"
    /\ regAt[s] >= 1
    /\ Len(recv[s]) > QueueCap

\* C2: when run processes an event while a registered channel holds QueueCap
\* events, that step closes the channel and removes it from the set, and the
\* event is not put into it.
C2_FullIsDropped ==
  [][\A s \in Subscribers :
       (log' # log /\ s \in clients /\ Len(queue[s]) = QueueCap) =>
         /\ closed'[s]
         /\ s \notin clients'
         /\ queue'[s] = queue[s]]_vars

C2_Witness ==
  \E s \in Subscribers :
    /\ removedBy[s] = "drop"
    /\ closed[s]
    /\ Len(queue[s]) = QueueCap
    /\ endAt[s] = Len(log)

\* C3: a step of run that drops a full channel leaves every other registered
\* channel registered and open with its buffered events in place, and appends
\* the event exactly once to each other channel that has room, in whatever
\* order the clients are visited.
C3_OthersUntouched ==
  [][\A s, t \in Subscribers :
       (/\ s # t
        /\ log' # log
        /\ s \in clients /\ s \notin clients'
        /\ t \in clients /\ Len(queue[t]) < QueueCap) =>
         /\ t \in clients'
         /\ ~closed'[t]
         /\ queue'[t] = Append(queue[t], Last(log'))]_vars

C3_Witness ==
  \E s, t \in Subscribers :
    /\ s # t
    /\ removedBy[s] = "drop" /\ endAt[s] = Len(log)
    /\ t \in clients
    /\ Len(queue[t]) >= 2
    /\ Last(queue[t]) = Last(log)

\* C4: run never waits on a subscriber.  Whenever run is at its select and a
\* producer is blocked in its send on the open EventPush, run can take the
\* event whatever the subscriber channels hold; and with run scheduled, the
\* send of every producer completes, also when no subscriber ever reads.
C4_ProducerNotBlocked ==
  /\ [](\A p \in Producers :
          (pcRun = "select" /\ pcProd[p] = "push" /\ eventPush = "open")
            => ENABLED RunEvent(p))
  /\ \A p \in Producers : (pcProd[p] = "push") ~> (pcProd[p] # "push")

C4_Witness ==
  \E s \in Subscribers :
    /\ regAt[s] = 0
    /\ recv[s] = <<>>
    /\ pcSub[s] \in {"state", "range"}
    /\ Len(log) = MaxEvents
    /\ \A p \in Producers : pcProd[p] = "done"

\* C5: a subscriber that does not keep up is dropped, and the others go on.
\* A registered channel is never more than QueueCap events behind what its
\* subscriber has read; when its buffer is full while a producer pushes, it
\* is dropped unless its subscriber reads first; and once a channel was
\* dropped, run still takes every event pushed and appends it to every
\* registered channel that has room.
C5_SlowIsDropped ==
  /\ [](\A s \in clients : Len(log) - regAt[s] <= QueueCap + Len(recv[s]))
  /\ \A s \in Subscribers :
       (/\ s \in clients /\ pcSub[s] = "range" /\ Len(queue[s]) = QueueCap
        /\ \E p \in Producers : pcProd[p] = "push")
         ~> ((removedBy[s] = "drop" /\ closed[s] /\ s \notin clients)
             \/ Len(queue[s]) < QueueCap)
  /\ \A p \in Producers :
       ((\E s \in Subscribers : removedBy[s] = "drop") /\ pcProd[p] = "push")
         ~> (pcProd[p] # "push")
  /\ [][\A t \in Subscribers :
          (/\ \E s \in Subscribers : removedBy[s] = "drop"
           /\ log' # log
           /\ t \in clients /\ Len(queue[t]) < QueueCap) =>
            (t \in clients' /\ queue'[t] = Append(queue[t], Last(log')))]_vars

C5_Witness ==
  \E s, t \in Subscribers :
    /\ removedBy[s] = "drop"
    /\ recv[s] = <<>>
    /\ endAt[s] < Len(log)
    /\ recv[t] # <<>>
    /\ Last(recv[t]) = Last(log)

\* C6: a subscribe() or stop() call made after run has exited ends with an
\* error outcome and not with a crash of the caller: no such caller panics.
C6_NoCallerCrash ==
  \A s \in Subscribers : lateCall[s] => pcSub[s] # "panic"

\* C7: when the event source is closed, run closes every channel of the set
\* and empties the set, and every subscriber reading such a channel drains
\* it, sees it closed and returns.  The one exception is a subscriber whose
\* own websocket send failed: it has stopped reading and is in stop().
C7_ShutdownClosesAll ==
  /\ [](pcRun = "done" =>
          /\ clients = {}
          /\ \A s \in Subscribers :
               regAt[s] >= 0 => (closed[s] \/ removedBy[s] = "unregister"))
  /\ [][(pcRun = "closeClients" /\ pcRun' # pcRun) =>
          (pcRun' = "done" /\ \A s \in clients : closed'[s] /\ s \notin clients')]_vars
  /\ \A s \in Subscribers :
       (eventPush = "closed" /\ s \in clients)
         ~> /\ pcRun = "done"
            /\ \/ pcSub[s] = "done" /\ queue[s] = <<>> /\ closed[s]
               \/ nStop[s] > 0

C7_Witness ==
  /\ pcRun = "done"
  /\ \A s \in Subscribers :
       /\ removedBy[s] = "shutdown"
       /\ pcSub[s] = "done"
       /\ nStop[s] = 0
       /\ recv[s] # <<>>

\* C8: when run handles the unregister of a channel that it has dropped
\* before, the set, the buffers and the closed flags stay as they are and run
\* is back at its select; when run handles the unregister first, the channel
\* is not in the set at the later events and is never closed.  In neither
\* order is a channel closed twice (which would panic in run).
C8_StopAfterDropNoop ==
  /\ [][\A s \in Subscribers :
          /\ (pcSub[s] = "stop" /\ pcSub'[s] = "done" /\ removedBy[s] = "drop") =>
               /\ clients' = clients
               /\ queue' = queue
               /\ closed' = closed
               /\ pcRun' = "select"
          /\ removedBy[s] = "unregister" =>
               (~closed'[s] /\ s \notin clients' /\ removedBy'[s] = "unregister")]_vars
  /\ [](pcRun # "panic")

C8_Witness ==
  \E s \in Subscribers :
    /\ removedBy[s] = "drop"
    /\ nStop[s] = 1
    /\ pcSub[s] = "done"

\* C9: unregister is idempotent.  In every state run reaches, unregister of a
\* channel applied twice gives what it gives applied once, and unregister of
\* a channel that is not in the set gives the state back as it was, without
\* a panic.
C9_UnregisterIdempotent ==
  \A q \in Subscribers :
    LET st == LoopState IN
      /\ unregister(unregister(st, q), q) = unregister(st, q)
      /\ q \notin clients => unregister(st, q) = st
      /\ ~unregister(st, q).panic

C9_Witness ==
  \E q, r \in Subscribers :
    /\ q # r
    /\ r \in clients
    /\ q \notin clients /\ closed[q]
    /\ nStop[q] = 1 /\ pcSub[q] = "done"
    /\ pcRun = "select"

\* C10: the adapter sends the snapshot that listen() returned before any
\* event, and then the events in the order run put them into the channel:
\* the sink holds the state first and then, in order, the events run
\* processed after it accepted the register; nothing is read before.
C10_SnapshotFirst ==
  \A s \in Subscribers :
    /\ sink[s] # <<>> => sink[s][1] = StateItem(snapshot[s])
    /\ \A i \in 2..Len(sink[s]) : sink[s][i] = EventItem(log[regAt[s] + i - 1])
    /\ recv[s] # <<>> => sink[s] # <<>>

C10_Witness ==
  \E s \in Subscribers :
    /\ regAt[s] >= 1
    /\ Len(sink[s]) >= 3

\* ------------------------------------------------- application with a StateFunc

\* An application that configures a StateFunc; its one producer writes
\* QueueCap + 3 events, which is what fills a channel, drops it, publishes to
\* the empty set and then to a new subscriber.
InitState ==
  /\ clients = {}
  /\ queue = [s \in Subscribers |-> <<>>]
  /\ closed = [s \in Subscribers |-> FALSE]
  /\ pcRun = "select"
  /\ registerChan = "open"
  /\ unregisterChan = "open"
  /\ eventPush = "open"
  /\ pcSub = [s \in Subscribers |-> "idle"]
  /\ quota = [p \in Producers |-> IF p = 1 THEN QueueCap + 3 ELSE 0]
  /\ stateFunc = TRUE
  /\ pcProd = [p \in Producers |-> IF quota[p] > 0 THEN "idle" ELSE "done"]
  /\ nSent = [p \in Producers |-> 0]
  /\ provider = {}
  /\ snapshot = [s \in Subscribers |-> {}]
  /\ log = <<>>
  /\ regAt = [s \in Subscribers |-> -1]
  /\ endAt = [s \in Subscribers |-> -1]
  /\ removedBy = [s \in Subscribers |-> "none"]
  /\ recv = [s \in Subscribers |-> <<>>]
  /\ sink = [s \in Subscribers |-> <<>>]
  /\ nStop = [s \in Subscribers |-> 0]
  /\ lateCall = [s \in Subscribers |-> FALSE]
  /\ rest = RestIdle

SpecState == InitState /\ [][Next]_vars

\* The steps of a run whose event source stays open: the application never
\* closes EventPush, so run never returns.
NextOpen ==
  \/ \E s \in Subscribers : RunRegister(s)
  \/ \E s \in Subscribers : RunUnregister(s)
  \/ \E p \in Producers : RunEvent(p)
  \/ \E p \in Producers : ProducerWrite(p)
  \/ \E s \in Subscribers : ListenCall(s)
  \/ \E s \in Subscribers, ok \in BOOLEAN : ServeState(s, ok)
  \/ \E s \in Subscribers, ok \in BOOLEAN : ServeEvent(s, ok)
  \/ \E s \in Subscribers : ServeClosed(s)

SpecStateOpen == InitState /\ [][NextOpen]_vars

\* C11: the scenario with channels of capacity QueueCap.  A subscriber that
\* registers first and reads nothing holds the first QueueCap events and is
\* dropped by the next one; an event that run processes while the set is
\* empty changes no channel and leaves the set empty; a subscriber that
\* registers after QueueCap + 2 events and asks for the state before the
\* next event is written gets the state made of these QueueCap + 2 events,
\* and gets through its channel the event QueueCap + 3 and nothing older.
C11_Scenario ==
  /\ [](\A s \in Subscribers :
          (/\ regAt[s] = 0 /\ recv[s] = <<>> /\ removedBy[s] # "unregister"
           /\ Len(log) >= QueueCap + 1) =>
            /\ removedBy[s] = "drop" /\ endAt[s] = QueueCap + 1
            /\ closed[s] /\ s \notin clients
            /\ queue[s] = SubSeq(log, 1, QueueCap))
  /\ [][(log' # log /\ clients = {}) =>
          (clients' = {} /\ queue' = queue /\ closed' = closed /\ pcRun' = "select")]_vars
  /\ [][\A t \in Subscribers :
          (/\ pcSub[t] = "state" /\ pcSub'[t] # "state"
           /\ regAt[t] = QueueCap + 2
           /\ pcProd[1] = "idle" /\ nSent[1] = QueueCap + 2) =>
            snapshot'[t] = {log[i] : i \in 1..(QueueCap + 2)}]_vars
  /\ [](\A t \in Subscribers :
          (regAt[t] = QueueCap + 2 /\ endAt[t] # QueueCap + 2 /\ Len(log) = QueueCap + 3) =>
            recv[t] \o queue[t] = <<log[QueueCap + 3]>>)

C11_Witness ==
  \E s, t \in Subscribers :
    /\ regAt[s] = 0 /\ recv[s] = <<>>
    /\ removedBy[s] = "drop" /\ endAt[s] = QueueCap + 1
    /\ regAt[t] = QueueCap + 2
    /\ snapshot[t] = {log[i] : i \in 1..(QueueCap + 2)}
    /\ Len(log) = QueueCap + 3
    /\ recv[t] = <<log[QueueCap + 3]>>
    /\ queue[t] = <<>>

\* ------------------------------------------------- the concurrent test

\* TestEvents: several writers on one EventPush that nobody closes, readers
\* that come and go.  Producer 1 writes all events of the run but one,
\* producer 2 writes one.
InitTest ==
  /\ clients = {}
  /\ queue = [s \in Subscribers |-> <<>>]
  /\ closed = [s \in Subscribers |-> FALSE]
  /\ pcRun = "select"
  /\ registerChan = "open"
  /\ unregisterChan = "open"
  /\ eventPush = "open"
  /\ pcSub = [s \in Subscribers |-> "idle"]
  /\ quota = [p \in Producers |-> IF p = 1 THEN MaxEvents - 1 ELSE 1]
  /\ stateFunc = FALSE
  /\ pcProd = [p \in Producers |-> IF quota[p] > 0 THEN "idle" ELSE "done"]
  /\ nSent = [p \in Producers |-> 0]
  /\ provider = {}
  /\ snapshot = [s \in Subscribers |-> {}]
  /\ log = <<>>
  /\ regAt = [s \in Subscribers |-> -1]
  /\ endAt = [s \in Subscribers |-> -1]
  /\ removedBy = [s \in Subscribers |-> "none"]
  /\ recv = [s \in Subscribers |-> <<>>]
  /\ sink = [s \in Subscribers |-> <<>>]
  /\ nStop = [s \in Subscribers |-> 0]
  /\ lateCall = [s \in Subscribers |-> FALSE]
  /\ rest = RestIdle

\* case stopTime := <-stopChan of the reader's select: the reader's timer has
\* fired, it calls events.stop(eventsClient) and returns
ReaderStop(s) ==
  /\ pcSub[s] = "range"
  /\ pcSub' = [pcSub EXCEPT ![s] = "stop"]
  /\ nStop' = [nStop EXCEPT ![s] = @ + 1]
  /\ lateCall' = [lateCall EXCEPT ![s] = (pcRun = "done")]
  /\ UNCHANGED <<rest, loopVars, eventPush, prodVars, snapshot, recv, sink, histVars>>

NextTest ==
  \/ NextOpen
  \/ \E s \in Subscribers : ReaderStop(s)

SpecTest == InitTest /\ [][NextTest]_vars

\* The steps of run while the source is open.
RunOpenNext ==
  \/ \E s \in Subscribers : RunRegister(s)
  \/ \E s \in Subscribers : RunUnregister(s)
  \/ \E p \in Producers : RunEvent(p)

\* What a reader does without reading its channel: it takes the value
\* listen() returned, and its timer fires.
ReaderNext(s) ==
  \/ \E ok \in BOOLEAN : ServeState(s, ok)
  \/ ReaderStop(s)

\* run is scheduled, and so is every reader, whose timer fires in the end.
\* No reader has to read its channel, no writer has to write.
FairTest ==
  /\ InitTest /\ [][NextTest]_vars
  /\ WF_vars(RunOpenNext)
  /\ \A s \in Subscribers : WF_vars(ReaderNext(s))

\* C12: no deadlock while the source is open.  run is at its select in every
\* state, so whoever is blocked in a send to run (a writer on EventPush, a
\* listen() on registerChan, a stop() on unregisterChan) can be served at
\* once, whatever the client channels hold; with run scheduled every such
\* send completes, though no reader ever reads: every run ends with no writer
\* blocked in its send and with every subscriber that called listen() back
\* from listen(), from its reading and from stop(); and a reader that has
\* returned saw its channel closed and drained, or called stop() itself.
C12_NoDeadlock ==
  /\ [](/\ pcRun = "select"
        /\ \A p \in Producers : pcProd[p] = "push" => ENABLED RunEvent(p)
        /\ \A s \in Subscribers :
             /\ pcSub[s] = "listen" => ENABLED RunRegister(s)
             /\ pcSub[s] = "stop" => ENABLED RunUnregister(s)
             /\ pcSub[s] = "done" => ((closed[s] /\ queue[s] = <<>>) \/ nStop[s] > 0))
  /\ <>[](/\ \A p \in Producers : pcProd[p] # "push"
          /\ \A s \in Subscribers : pcSub[s] \in {"idle", "done"})

C12_Witness ==
  \E s, t \in Subscribers :
    /\ \A p \in Producers : pcProd[p] = "done"
    /\ Len(log) = MaxEvents
    /\ pcSub[s] = "done" /\ removedBy[s] = "drop" /\ nStop[s] = 0 /\ recv[s] # <<>>
    /\ pcSub[t] = "done" /\ removedBy[t] = "unregister" /\ nStop[t] = 1
    /\ regAt[t] < endAt[s]

\* The events of a sequence, as a set.
Range(seq) == {seq[i] : i \in 1..Len(seq)}

\* C13: a channel is in the set exactly from the step in which run accepts
\* its register until run unregisters it, drops it or shuts down.  Every
\* event run processes in between is offered to it in that step: it is
\* appended to the channel, or the channel is full and is dropped.  No event
\* that run processed before it accepted the register is ever in the channel.
C13_OfferedAfterRegister ==
  /\ [](\A q \in Subscribers :
          /\ q \in clients <=> (regAt[q] >= 0 /\ removedBy[q] = "none")
          /\ \A i \in 1..Len(log) :
               i <= regAt[q] => log[i] \notin Range(recv[q] \o queue[q])
          /\ regAt[q] < 0 => queue[q] = <<>>)
  /\ [][\A q \in Subscribers :
          (log' # log /\ regAt[q] >= 0 /\ removedBy[q] = "none") =>
            \/ /\ Len(queue[q]) < QueueCap
               /\ queue'[q] = Append(queue[q], Last(log'))
               /\ q \in clients'
            \/ /\ Len(queue[q]) = QueueCap
               /\ removedBy'[q] = "drop" /\ closed'[q] /\ q \notin clients']_vars

C13_Witness ==
  \E q \in Subscribers :
    /\ regAt[q] = 1
    /\ removedBy[q] = "drop"
    /\ recv[q] \o queue[q] = SubSeq(log, 2, Len(log) - 1)
    /\ Len(log) = MaxEvents

\* C14: a closed channel (dropped as full, or closed at shutdown) stays
\* closed and is not in the set, so that no event is offered to it; the only
\* change to its buffer is its subscriber reading the head of it.
C14_ClosedOnlyShrinks ==
  /\ [](\A q \in Subscribers : closed[q] => q \notin clients)
  /\ [][\A q \in Subscribers :
          closed[q] =>
            /\ closed'[q]
            /\ \/ queue'[q] = queue[q]
               \/ /\ queue[q] # <<>>
                  /\ queue'[q] = Tail(queue[q])
                  /\ recv'[q] = Append(recv[q], Head(queue[q]))]_vars

C14_Witness ==
  \E q, r \in Subscribers :
    /\ removedBy[q] = "drop"
    /\ endAt[q] - regAt[q] = QueueCap + 1
    /\ endAt[q] < Len(log)
    /\ recv[q] # <<>>
    /\ removedBy[r] = "shutdown" /\ queue[r] # <<>>

\* C15: no subscriber channel ever holds more than QueueCap events, whether
\* its subscriber reads or not and whatever number of events is published.
C15_QueueBounded ==
  \A s \in Subscribers : Len(queue[s]) <= QueueCap

C15_Witness ==
  \E s \in Subscribers :
    /\ regAt[s] = 0
    /\ recv[s] = <<>>
    /\ Len(queue[s]) = QueueCap
    /\ Len(log) = MaxEvents
    /\ MaxEvents > QueueCap

\* What has reached subscriber s: what it has read and what is buffered.
Reached(s) == recv[s] \o queue[s]

\* C16: with several producers the subscribers agree on one order.  Two
\* events that have both reached two subscribers are in the same relative
\* order at both, which is the order in which run received them; and the
\* events of one producer reach every subscriber in the order in which that
\* producer sent them.
C16_OneOrder ==
  \A s \in Subscribers :
    LET rs == Reached(s) IN
      \A j \in 2..Len(rs) : \A i \in 1..(j - 1) :
        /\ \A t \in Subscribers \ {s} :
             LET rt == Reached(t) IN
               \A k, l \in 1..Len(rt) : (rs[i] = rt[k] /\ rs[j] = rt[l]) => k < l
        /\ rs[i][1] = rs[j][1] => rs[i][2] < rs[j][2]
        /\ \A k, l \in 1..Len(log) : (rs[i] = log[k] /\ rs[j] = log[l]) => k < l

C16_Witness ==
  \E s, t \in Subscribers :
    /\ s # t
    /\ {<<1, 1>>, <<2, 1>>, <<1, 2>>} \subseteq Range(recv[s])
    /\ {<<2, 1>>, <<1, 2>>} \subseteq Range(recv[t])
    /\ regAt[t] > 0
    /\ log[2] = <<2, 1>>

\* C17: at shutdown run closes and removes every channel of the set before
\* it closes registerChan and unregisterChan: in no state is one of these two
\* closed while a channel is still registered and open.
C17_CloseBeforeDisable ==
  (registerChan = "closed" \/ unregisterChan = "closed") =>
    \A s \in Subscribers : ~(s \in clients /\ ~closed[s])

\* C18: shutdown completes, with no channel registered and with several, and
\* no channel is closed twice.  run never panics in a close; a channel is
\* closed exactly when run dropped it or closed it at shutdown, and a channel
\* that run unregistered for a stop() is never closed; the step that closes a
\* channel finds it open and registered; a closed channel keeps the one
\* reason of its removal, so the shutdown does not close a dropped channel
\* again; the deferred clients.close() ends in "done"; and once the source is
\* closed run gets there.
C18_ClosedOnce ==
  /\ [](pcRun # "panic")
  /\ [](\A q \in Subscribers : closed[q] <=> removedBy[q] \in {"drop", "shutdown"})
  /\ [][\A q \in Subscribers :
          /\ (closed'[q] /\ ~closed[q]) => (q \in clients /\ removedBy[q] = "none")
          /\ closed[q] => (closed'[q] /\ removedBy'[q] = removedBy[q])
          /\ removedBy[q] = "unregister" => removedBy'[q] = "unregister"]_vars
  /\ [][(pcRun = "closeClients" /\ pcRun' # pcRun) => (pcRun' = "done" /\ clients' = {})]_vars
  /\ (eventPush = "closed") ~> (pcRun = "done")

C18_Witness ==
  \E q, r \in Subscribers :
    /\ pcRun = "done"
    /\ removedBy[q] = "drop" /\ nStop[q] = 1 /\ pcSub[q] = "done"
    /\ removedBy[r] = "shutdown"
    /\ closed[q] /\ closed[r]

\* C19: a subscriber whose channel was dropped as full gets the events that
\* were in the channel and then the closure.  What it has read and what is
\* left in the closed channel are, in order, the events run processed from
\* its registration up to the one before the event that dropped it: neither
\* that event nor a later one.  While events are left it can read the next,
\* and when none is left it sees the closure; when it has returned on the
\* closure it has read them all.  What any subscriber has read is a
\* contiguous prefix of the events run processed after its registration.
C19_DroppedReadsPrefix ==
  \A s \in Subscribers :
    /\ regAt[s] >= 0 =>
         recv[s] = SubSeq(log, regAt[s] + 1, regAt[s] + Len(recv[s]))
    /\ removedBy[s] = "drop" =>
         /\ recv[s] \o queue[s] = SubSeq(log, regAt[s] + 1, endAt[s] - 1)
         /\ endAt[s] - regAt[s] >= QueueCap + 1
         /\ (pcSub[s] = "range" /\ queue[s] # <<>>) => ENABLED ServeEvent(s, TRUE)
         /\ (pcSub[s] = "range" /\ queue[s] = <<>>) => ENABLED ServeClosed(s)
         /\ (pcSub[s] = "done" /\ nStop[s] = 0) =>
              recv[s] = SubSeq(log, regAt[s] + 1, endAt[s] - 1)

C19_Witness ==
  \E s \in Subscribers :
    /\ removedBy[s] = "drop"
    /\ pcSub[s] = "done" /\ nStop[s] = 0
    /\ Len(recv[s]) > QueueCap
    /\ recv[s] = SubSeq(log, regAt[s] + 1, endAt[s] - 1)
    /\ endAt[s] = Len(log)

\* The websocket send of the state or of an event read by s fails in this step.
SendFails(s) ==
  /\ sink'[s] = sink[s]
  /\ \/ pcSub[s] = "state" /\ pcSub'[s] # "state"
     \/ recv'[s] # recv[s]

\* C20: ServeWebsocket calls stop() once when the websocket send of the
\* state or of an event fails, and not at all when its range ended on the
\* closed channel.  The step in which a send fails is the one stop() call of
\* the subscriber, and no other step is one; a subscriber makes at most one;
\* the step that ends the range on a closed and drained channel returns with
\* no stop() call made, and none is made afterwards.
C20_StopOnFailureOnly ==
  /\ [](\A s \in Subscribers : nStop[s] <= 1)
  /\ [][\A s \in Subscribers :
          /\ SendFails(s) => (nStop[s] = 0 /\ nStop'[s] = 1 /\ pcSub'[s] = "stop")
          /\ nStop'[s] # nStop[s] => SendFails(s)
          /\ (pcSub[s] = "range" /\ pcSub'[s] = "done") =>
               (closed[s] /\ queue[s] = <<>> /\ nStop'[s] = 0)
          /\ pcSub[s] = "done" => pcSub'[s] = "done"]_vars

C20_Witness ==
  \E s, t \in Subscribers :
    /\ pcSub[s] = "done" /\ nStop[s] = 0 /\ removedBy[s] = "drop" /\ recv[s] # <<>>
    /\ pcSub[t] = "done" /\ nStop[t] = 1 /\ removedBy[t] = "unregister"
    /\ Len(sink[t]) = Len(recv[t]) /\ recv[t] # <<>>

\* The messages run handles in a step: registers accepted, unregisters
\* accepted, events received.
Handled ==
  Cardinality({s \in Subscribers : regAt'[s] # regAt[s]})
    + Cardinality({s \in Subscribers : pcSub[s] = "stop" /\ pcSub'[s] = "done"})
    + (Len(log') - Len(log))

\* C21: the set changes only in steps of run.  A step that changes it is the
\* handling of one register, one unregister or one event, or the deferred
\* clients.close(); no step handles more than one message, so that the
\* messages are handled one after the other, in one order; and every step of
\* a producer, of a listen() or stop() caller before run takes its message,
\* and of a reader leaves the set as it is.
C21_OnlyRunChangesSet ==
  /\ [][clients' # clients =>
          /\ RunNext
          /\ \/ Handled = 1 /\ pcRun = "select"
             \/ Handled = 0 /\ pcRun = "closeClients"]_vars
  /\ [][Handled <= 1 /\ (Handled = 1 => RunNext)]_vars
  /\ [][(\/ \E p \in Producers : ProducerWrite(p)
         \/ CloseSource
         \/ \E s \in Subscribers : ListenCall(s) \/ ListenPanic(s) \/ StopPanic(s)
         \/ \E s \in Subscribers, ok \in BOOLEAN : ServeState(s, ok) \/ ServeEvent(s, ok)
         \/ \E s \in Subscribers : ServeClosed(s)) => clients' = clients]_vars

C21_Witness ==
  \E s, t \in Subscribers :
    /\ removedBy[s] = "unregister"
    /\ removedBy[t] = "drop"
    /\ regAt[s] > regAt[t]
    /\ pcRun = "done"

\* C22: listen() reads the state in the caller, in a step of its own after
\* the step in which run accepted the register, and run can process an event
\* between the two.  The step that accepts the register leaves the snapshot
\* alone; the snapshot is set by the caller's later step to what the
\* StateFunc returns then; and while the caller is between the two, run can
\* take the event of a producer that is pushing.  The witness is the
\* interleaving in which an event is in the snapshot of a subscriber and also
\* reaches it through its channel.
C22_SnapshotNotAtomic ==
  /\ [][\A s \in Subscribers :
          /\ regAt'[s] # regAt[s] => (pcSub'[s] = "state" /\ snapshot'[s] = snapshot[s])
          /\ snapshot'[s] # snapshot[s] =>
               (pcSub[s] = "state" /\ regAt'[s] = regAt[s] /\ regAt[s] >= 0
                /\ log' = log /\ snapshot'[s] = provider)]_vars
  /\ [](\A s \in Subscribers : \A p \in Producers :
          (pcSub[s] = "state" /\ pcProd[p] = "push") => ENABLED RunEvent(p))

C22_Witness ==
  \E s \in Subscribers :
    /\ pcSub[s] = "range"
    /\ regAt[s] >= 1
    /\ Len(log) > regAt[s]
    /\ log[regAt[s] + 1] \in snapshot[s]
    /\ log[regAt[s] + 1] \in Range(recv[s])

\* C23: with producers that apply an event to the state before they push it,
\* no event is lost on a subscriber without a trace.  For a subscriber to
\* which listen() has returned and for every event run has processed: the
\* event is in the snapshot listen() returned, or it was put into the
\* subscriber's channel, or the channel was dropped at or before the event,
\* or run had unregistered it (or shut down) before the event.
C23_NothingMissed ==
  \A s \in Subscribers :
    (regAt[s] >= 0 /\ pcSub[s] \in {"range", "stop", "done"}) =>
      \A i \in 1..Len(log) :
        \/ log[i] \in snapshot[s]
        \/ log[i] \in Range(Reached(s))
        \/ removedBy[s] = "drop" /\ endAt[s] <= i
        \/ removedBy[s] \in {"unregister", "shutdown"} /\ endAt[s] < i

C23_Witness ==
  \E s \in Subscribers :
    /\ regAt[s] = 1
    /\ pcSub[s] = "done"
    /\ removedBy[s] = "drop"
    /\ Len(log) = QueueCap + 3
    /\ snapshot[s] = {log[1]}
    /\ recv[s] = SubSeq(log, 2, QueueCap + 1)

\* ------------------------------------------------- the variant of events.go

\* run's local variable state in events.go: struct{}{} at the start and the
\* last event received afterwards (state = event after every publish).
runState == IF log = <<>> THEN NoEvent ELSE Last(log)

\* Mutant: run registers the channel without sending the state to it.
RunRegisterOldNoState(s) ==
  /\ pcRun = "select"
  /\ pcSub[s] = "listen"
  /\ registerChan = "open"
  /\ log' = log
  /\ Commit(register(LoopState, s), "select", "drop")
  /\ regAt' = [regAt EXCEPT ![s] = Len(log)]
  /\ pcSub' = [pcSub EXCEPT ![s] = "range"]
  /\ UNCHANGED <<rest, registerChan, unregisterChan, eventPush, prodVars,
                 snapshot, recv, sink, nStop, lateCall>>

\* events.go, case clientChan := <-events.registerChan:
\* clients.register(clientChan); clients.send(clientChan, state).  listen()
\* returns the channel alone, and serveWebsocket goes to its range at once.
RunRegisterOld(s) ==
  /\ pcRun = "select"
  /\ pcSub[s] = "listen"
  /\ registerChan = "open"
  /\ log' = log
  /\ Commit(send(register(LoopState, s), s, runState), "select", "drop")
  /\ regAt' = [regAt EXCEPT ![s] = Len(log)]
  /\ pcSub' = [pcSub EXCEPT ![s] = "range"]
  /\ UNCHANGED <<rest, registerChan, unregisterChan, eventPush, prodVars,
                 snapshot, recv, sink, nStop, lateCall>>

NextOld ==
  \/ \E s \in Subscribers : RunRegisterOld(s)
  \/ \E s \in Subscribers : RunUnregister(s)
  \/ \E p \in Producers : RunEvent(p)
  \/ RunEventClosed
  \/ RunCloseRegister
  \/ RunCloseClients
  \/ \E p \in Producers : ProducerWrite(p)
  \/ CloseSource
  \/ \E s \in Subscribers : ListenCall(s)
  \/ \E s \in Subscribers : ListenPanic(s)
  \/ \E s \in Subscribers : StopPanic(s)
  \/ \E s \in Subscribers, ok \in BOOLEAN : ServeEvent(s, ok)
  \/ \E s \in Subscribers : ServeClosed(s)

SpecOld == Init /\ [][NextOld]_vars

\* The state run held when it accepted the register of s.
StateAt(s) == IF regAt[s] = 0 THEN NoEvent ELSE log[regAt[s]]

\* C24: in events.go the step of run that accepts a register puts run's
\* state (the last event received, or the empty default) into the new
\* channel as its first item.  So the first item a subscriber reads is that
\* state, and what reaches it afterwards is, in order, the events run
\* processed after the registration while the channel was registered.  The
\* state item takes one of the QueueCap slots: a subscriber that reads
\* nothing is registered for at most QueueCap - 1 events and is dropped by
\* event number QueueCap after its registration.
C24_StateItemFirst ==
  /\ [][\A s \in Subscribers :
          regAt'[s] # regAt[s] =>
            (queue'[s] = <<runState>> /\ s \in clients' /\ ~closed'[s] /\ log' = log)]_vars
  /\ [](\A s \in Subscribers :
          regAt[s] >= 0 =>
            /\ Reached(s) = <<StateAt(s)>> \o
                 (IF removedBy[s] = "drop"
                    THEN SubSeq(log, regAt[s] + 1, endAt[s] - 1)
                    ELSE Window(s))
            /\ Len(queue[s]) <= QueueCap
            /\ (s \in clients /\ recv[s] = <<>>) => Len(log) - regAt[s] <= QueueCap - 1
            /\ (removedBy[s] = "drop" /\ recv[s] = <<>>) => endAt[s] - regAt[s] = QueueCap)

C24_Witness ==
  \E s, t \in Subscribers :
    /\ regAt[s] = 1
    /\ recv[s] = <<>>
    /\ removedBy[s] = "drop"
    /\ endAt[s] = QueueCap + 1
    /\ Head(queue[s]) = log[1]
    /\ regAt[t] = 0
    /\ Len(recv[t]) >= 2
    /\ recv[t][1] = NoEvent /\ recv[t][2] = log[1]

\* C25: no channel of the set is closed, in any state: a channel that was
\* closed has been deleted from the set in the same call.  So a publish,
\* whatever the order in which it visits the set, sends to no closed channel
\* (which would panic), and run has not panicked.
C25_NoClosedInSet ==
  /\ \A q \in clients : ~closed[q]
  /\ \A order \in Perms(clients) : ~publish(LoopState, order, NoEvent).panic
  /\ pcRun # "panic"

C25_Witness ==
  \E q, r \in Subscribers :
    /\ closed[q] /\ removedBy[q] = "drop"
    /\ endAt[q] < Len(log)
    /\ r \in clients
    /\ queue[r] # <<>> /\ Last(queue[r]) = Last(log)
    /\ regAt[r] < endAt[q]

\* C26: a channel that run took out of the set for a stop() is never closed
\* afterwards, by a later publish or by the shutdown.  It is open and out of
\* the set in every later state, also after run has exited, and nothing is
\* put into it; so whoever went on reading it would take what is buffered
\* and then wait: the closure that ends a range never comes.
C26_StoppedNeverClosed ==
  /\ [](\A s \in Subscribers :
          removedBy[s] = "unregister" => (~closed[s] /\ s \notin clients))
  /\ [][\A s \in Subscribers :
          removedBy[s] = "unregister" =>
            /\ removedBy'[s] = "unregister"
            /\ ~closed'[s]
            /\ queue'[s] = queue[s]]_vars

C26_Witness ==
  \E s, t \in Subscribers :
    /\ pcRun = "done"
    /\ removedBy[s] = "unregister" /\ ~closed[s]
    /\ endAt[s] < Len(log)
    /\ queue[s] # <<>>
    /\ removedBy[t] = "shutdown" /\ closed[t]
    /\ regAt[t] < endAt[s]

\* A send that is blocked on a channel when the channel is closed is woken
\* by the runtime, with a panic.
CallerPanic(s) == ListenPanic(s) \/ StopPanic(s)

\* run is scheduled, and so is the wake-up of a sender on a closed channel.
FairCallers ==
  /\ Init /\ [][Next]_vars
  /\ WF_vars(RunNext)
  /\ \A s \in Subscribers : WF_vars(CallerPanic(s))

\* C27: once the source is closed no caller stays in listen() or stop() for
\* ever.  A caller that waits for run to take its message when the source is
\* closed gets out of the call: run took the message before it returned, or
\* the send ends on the closed channel, which is a panic in this code.  A
\* send ends that way only after run has begun to return.
C27_NoCallerBlocked ==
  /\ \A s \in Subscribers :
       (eventPush = "closed" /\ pcSub[s] \in {"listen", "stop"})
         ~> (pcSub[s] \in {"state", "done", "panic"})
  /\ [][\A s \in Subscribers :
          (pcSub'[s] = "panic" /\ pcSub[s] # "panic") =>
            /\ pcRun # "select"
            /\ \/ pcSub[s] = "listen" /\ registerChan = "closed"
               \/ pcSub[s] = "stop" /\ unregisterChan = "closed"]_vars

C27_Witness ==
  \E s, t \in Subscribers :
    /\ pcRun = "done"
    /\ pcSub[s] = "panic" /\ regAt[s] < 0 /\ ~lateCall[s]
    /\ pcSub[t] = "panic" /\ nStop[t] = 1 /\ ~lateCall[t]

\* ------------------------------------------------- the REST dispatcher

\* A request to API.handle and the resources it meets.  chain[1] is the root
\* and chain[i + 1] is what Index returns for name i of the path; each one is
\* or is not a MutableResource, whose ApplyREST returns or does not return an
\* error.  failAt = i > 0: the lookup fails at name i (readQuery, not an
\* IndexResource, an Index error or nil), or at the last readQuery when i is
\* past the names.  outcome is what the method's handler does, and ret is the
\* resource it returns: the looked-up resource itself or a new one.
Methods == {"GET", "POST", "PUT", "DELETE", "PATCH"}
Outcomes == {"notAllowed", "readError", "error", "nil", "resource"}
Returned == {"self", "mutable", "mutableFails", "plain"}
Attrs == [mutable : BOOLEAN, applyErr : BOOLEAN]

Requests ==
  UNION {
    {r \in [method : Methods, chain : [1..(n + 1) -> Attrs], failAt : 0..(n + 1),
            outcome : Outcomes, ret : Returned] :
       r.outcome = "readError" => r.method \in {"POST", "PUT"}}
    : n \in 1..MaxDepth}

\* The nil MutableResource, the result of a failed type assertion.
NilResource == [id |-> -1, mutable |-> FALSE, applyErr |-> FALSE]

\* Resource i of the lookup path, known by its place in it.
PathResource(req, i) ==
  [id |-> i, mutable |-> req.chain[i].mutable, applyErr |-> req.chain[i].applyErr]

Reverse(seq) == [i \in 1..Len(seq) |-> seq[Len(seq) + 1 - i]]

\* Mutant: lookup returns the mutables from the root down.
RECURSIVE lookupNoReverse(_, _, _)
lookupNoReverse(req, i, mutables) ==
  IF i <= Len(req.chain) - 1
    THEN IF req.failAt = i
           THEN [err |-> TRUE, resource |-> NilResource, mutables |-> <<>>]
           ELSE LET next == PathResource(req, i + 1) IN
                  lookupNoReverse(req, i + 1,
                    IF next.mutable THEN Append(mutables, next) ELSE mutables)
  ELSE IF req.failAt = i
    THEN [err |-> TRUE, resource |-> NilResource, mutables |-> <<>>]
    ELSE [err |-> FALSE, resource |-> PathResource(req, Len(req.chain)),
          mutables |-> mutables]

\* API.lookup from name i on, with the mutables collected so far: every
\* resource Index returns is appended if it is a MutableResource; an error
\* returns no mutables; at the end the slice is reversed.
RECURSIVE lookup(_, _, _)
lookup(req, i, mutables) ==
  IF i <= Len(req.chain) - 1
    THEN IF req.failAt = i
           THEN [err |-> TRUE, resource |-> NilResource, mutables |-> <<>>]
           ELSE LET next == PathResource(req, i + 1) IN
                  lookup(req, i + 1,
                    IF next.mutable THEN Append(mutables, next) ELSE mutables)
  ELSE IF req.failAt = i
    THEN [err |-> TRUE, resource |-> NilResource, mutables |-> <<>>]
    ELSE [err |-> FALSE, resource |-> PathResource(req, Len(req.chain)),
          mutables |-> Reverse(mutables)]

\* The loop of API.apply: ApplyREST on each resource, returning at the first
\* error.
RECURSIVE applyEach(_, _)
applyEach(resources, calls) ==
  IF resources = <<>> THEN [calls |-> calls, err |-> FALSE]
  ELSE IF Head(resources).applyErr
    THEN [calls |-> Append(calls, Head(resources).id), err |-> TRUE]
    ELSE applyEach(Tail(resources), Append(calls, Head(resources).id))

\* API.apply(resource, parents): the resource first, unless it is nil
apply(resource, parents) ==
  applyEach((IF resource # NilResource THEN <<resource>> ELSE <<>>) \o parents, <<>>)

\* What the handler of the method returns as ret.
returned(req) ==
  CASE req.ret = "self" -> PathResource(req, Len(req.chain))
    [] req.ret = "mutable" -> [id |-> 0, mutable |-> TRUE, applyErr |-> FALSE]
    [] req.ret = "mutableFails" -> [id |-> 0, mutable |-> TRUE, applyErr |-> TRUE]
    [] OTHER -> [id |-> 0, mutable |-> FALSE, applyErr |-> FALSE]

\* API.handle: the lookup, then the switch on r.Method.
handle(req) ==
  LET root == PathResource(req, 1)
      found == lookup(req, 1, IF root.mutable THEN <<root>> ELSE <<>>)
      ret == returned(req)
      \* mutableResource, _ := resource.(MutableResource)
      mutableResource == IF ret.mutable THEN ret ELSE NilResource
      applied == apply(mutableResource, found.mutables)
  IN
    IF found.err THEN [calls |-> <<>>, result |-> "lookupError"]
    ELSE IF req.method \notin {"GET", "POST", "PUT", "DELETE"}
      THEN [calls |-> <<>>, result |-> "notImplemented"]
    ELSE IF req.outcome # "resource"
      THEN [calls |-> <<>>, result |-> req.outcome]
    ELSE IF req.method = "GET"
      THEN [calls |-> <<>>, result |-> "response"]
    ELSE [calls |-> applied.calls,
          result |-> IF applied.err THEN "applyError" ELSE "response"]

\* API.ServeHTTP serves one request.
RestHandle ==
  /\ rest.pc = "idle"
  /\ \E req \in Requests :
       LET served == handle(req) IN
         rest' = [pc |-> "done", req |-> req,
                  calls |-> served.calls, result |-> served.result]
  /\ UNCHANGED <<loopVars, eventPush, prodVars, subVars, histVars>>

NextRest == RestHandle

SpecRest == Init /\ [][NextRest]_vars

\* The ApplyREST calls the claim expects for a request that reaches the
\* apply: the returned resource if it is mutable, then the mutable resources
\* of the path from the deepest to the root.
ExpectedCalls(req) ==
  LET n == Len(req.chain)
      ret == returned(req)
  IN (IF ret.mutable THEN <<ret.id>> ELSE <<>>)
       \o SelectSeq([i \in 1..n |-> n + 1 - i], LAMBDA k : req.chain[k].mutable)

\* ApplyREST of the resource with this id returns an error.
ApplyFails(req, id) ==
  IF id = 0 THEN returned(req).applyErr ELSE req.chain[id].applyErr

\* C28: after a POST, PUT or DELETE whose lookup succeeded and whose handler
\* returned a resource, ApplyREST is called on the returned resource if it is
\* mutable and then on the mutable resources of the path from the deepest to
\* the root, up to and with the first call that returns an error; a GET, a
\* failed lookup, and a handler that fails or returns nil make no call.
C28_ApplyOrder ==
  rest.pc = "done" =>
    LET req == rest.req
        calls == rest.calls
        expected == ExpectedCalls(req)
    IN IF /\ req.method \in {"POST", "PUT", "DELETE"}
          /\ req.failAt = 0
          /\ req.outcome = "resource"
         THEN /\ Len(calls) <= Len(expected)
              /\ calls = SubSeq(expected, 1, Len(calls))
              /\ \A i \in 1..(Len(calls) - 1) : ~ApplyFails(req, calls[i])
              /\ Len(calls) < Len(expected) => ApplyFails(req, calls[Len(calls)])
              /\ rest.result = "applyError" <=>
                   (calls # <<>> /\ ApplyFails(req, calls[Len(calls)]))
         ELSE calls = <<>>

C28_Witness ==
  /\ rest.pc = "done"
  /\ rest.req.method = "POST"
  /\ Len(rest.req.chain) = 3
  /\ rest.req.ret = "mutable"
  /\ rest.calls = <<0, 3, 2, 1>>
  /\ rest.result = "response"

====
